---- MODULE Spec2Model ----
(***************************************************************************)
(* Model of lxe/gtfs-chat: the query correction engine of engine.py        *)
(* (GTFSQueryEngine.process_query and execute_query_with_retries) and the  *)
(* GTFS ingestion pipeline of gtfs_processor.py (process_gtfs_feed).       *)
(***************************************************************************)
EXTENDS Integers, Sequences, FiniteSets, TLC

(***************************************************************************)
(* Program constants                                                       *)
(***************************************************************************)
\* engine.py:204, default of the max_retries parameter
max_retries == 3

(***************************************************************************)
(* Bounds of the model: the values the store and the gateway may answer    *)
(***************************************************************************)
\* SQL texts the language model may answer with
Queries == {"q1", "q2"}
\* messages of the exceptions query_to_dict may raise
StoreErrors == {"e1", "e2"}
\* messages of the exceptions llm_call may raise
GatewayErrors == {"g1"}
\* row lists a query may return; "d1" is a row holding a value json cannot
\* encode (a date, an interval), "r1" and "r2" are plain rows
RowLists == {<< >>, <<"r1">>, <<"r2">>, <<"d1">>}
\* texts the summarizer may answer with
Summaries == {"s1", "s2"}
\* texts the validator may answer with, as sequences of words
Verdicts == {<<"VALID">>, <<"SUSPICIOUS", "too fast for bus">>,
             <<"probably", "SUSPICIOUS">>, << >>}

NoError == [src |-> "none", msg |-> "none"]
NoExec == [query |-> "none", kind |-> "none", rows |-> << >>, err |-> "none",
           guarded |-> FALSE]

VARIABLES
    pc,               \* position of the chat request in process_query
    phase,            \* 1: first execute_query_with_retries call, 2: the corrective one
    attempt,          \* loop variable of execute_query_with_retries
    query,            \* local query of execute_query_with_retries
    error_message,    \* local error_message of execute_query_with_retries
    results,          \* process_query's results
    final_query,      \* process_query's final_query
    summary,          \* process_query's summary
    validation_result,\* process_query's validation_result
    raised,           \* the exception that left process_query, if any
    nExec,            \* history: store executions of the current execute_query_with_retries call
    nExecTotal,       \* history: store executions of the request
    nCorrectEmpty,    \* history: correct_empty_results calls inside the current call
    nEmptyGuarded,    \* history: guarded executions of the current call that returned zero rows
    firstOutcome,     \* history: outcome of the first execution of the current call
    allFailed,        \* history: every execution of the current call raised
    neverSucceeded,   \* history: every store execution of the request raised
    lastExec,         \* history: the last store execution of the request
    lastCorrected,    \* history: the text the last successful correction returned
    gwFailed,         \* history: some llm_call of the request raised
    afterFail,        \* history: gateway calls and store executions made after that
    nValidate,        \* history: validate_data calls
    nSummarize,       \* history: summarize_results calls
    nSuspCorrect,     \* history: correct_empty_results calls of line 263
    nEqwr,            \* history: execute_query_with_retries calls
    schema            \* the engine's self.schema: table name -> column names

engineVars == <<pc, phase, attempt, query, error_message, results, final_query,
                summary, validation_result, raised, nExec, nExecTotal,
                nCorrectEmpty, nEmptyGuarded, firstOutcome, allFailed,
                neverSucceeded, lastExec, lastCorrected, gwFailed, afterFail, nValidate, nSummarize,
                nSuspCorrect, nEqwr, schema>>

(***************************************************************************)
(* Ingestion: file names are sequences of their dot-separated parts        *)
(***************************************************************************)
\* gtfs_processor.py:10-14
VALID_GTFS_FILES ==
    {<<"agency", "txt">>, <<"stops", "txt">>, <<"routes", "txt">>,
     <<"trips", "txt">>, <<"stop_times", "txt">>, <<"calendar", "txt">>,
     <<"calendar_dates", "txt">>, <<"shapes", "txt">>,
     <<"frequencies", "txt">>, <<"transfers", "txt">>, <<"feed_info", "txt">>}

\* gtfs_processor.py:16-131, the keys of GTFS_COLUMN_TYPES
GTFS_COLUMN_TYPES_keys ==
    {"agency", "stops", "routes", "trips", "stop_times", "calendar",
     "calendar_dates", "shapes", "frequencies", "transfers", "feed_info"}

\* `filename.split('.')[0]`
table_name_of(filename) == filename[1]

\* bound: the longest feed a call of process_gtfs_feed is given
MaxFiles == 3

\* file names that occur in the feeds of the model; fare_rules.txt is not in
\* the allow-list
FeedNames == {<<"stops", "txt">>, <<"routes", "txt">>, <<"trips", "txt">>,
              <<"fare_rules", "txt">>}

\* contents a file of the given name may have: its header, its number of data
\* rows and its defect ("parse": read_gtfs raises, "load": copy_from raises)
ContentsOf(name) ==
    IF name = <<"stops", "txt">>
    THEN {[header |-> <<"stop_id", "stop_lat", "stop_lon">>, nrows |-> 2, defect |-> "none"],
          [header |-> <<"stop_id", "stop_name">>, nrows |-> 1, defect |-> "none"],
          [header |-> <<"stop_id", "stop_lat", "stop_lon", "geometry">>, nrows |-> 1, defect |-> "none"],
          [header |-> <<"stop_id", "stop_lat", "stop_lon">>, nrows |-> 1, defect |-> "parse"],
          [header |-> <<"stop_id", "stop_lat", "stop_lon">>, nrows |-> 1, defect |-> "load"]}
    ELSE IF name = <<"routes", "txt">>
    THEN {[header |-> <<"id", "name">>, nrows |-> 2, defect |-> "none"],
          [header |-> <<"id", "name">>, nrows |-> 1, defect |-> "parse"],
          [header |-> <<"id", "name">>, nrows |-> 1, defect |-> "load"]}
    ELSE IF name = <<"trips", "txt">>
    THEN {[header |-> <<"id">>, nrows |-> 1, defect |-> "none"]}
    ELSE {[header |-> <<"id">>, nrows |-> 1, defect |-> "none"]}

Files ==
    UNION {{[name |-> n, header |-> c.header, nrows |-> c.nrows,
             defect |-> c.defect] : c \in ContentsOf(n)} : n \in FeedNames}

\* feed_content: a dict, so an ordered list of files with distinct names
Feeds ==
    UNION {{f \in [1..k -> Files] :
               \A i, j \in 1..k : i # j => f[i].name # f[j].name}
           : k \in 0..MaxFiles}

\* names of the tables the store may hold
StoreNames == GTFS_COLUMN_TYPES_keys \cup {table_name_of(n) : n \in FeedNames}

Absent == [exists |-> FALSE, cols |-> << >>, rows |-> 0, geom |-> FALSE,
           index |-> FALSE]

VARIABLES
    store,       \* the tables of the public schema: name -> table or Absent
    ipc,         \* position of the ingestion in process_gtfs_feed
    feed,        \* feed_content of the running (or last) process_gtfs_feed call
    idx,         \* position of the loop of line 220 in feed
    ierr,        \* the exception that left process_gtfs_feed, if any
    touched,     \* history: names process_gtfs_file was called with in this call
    augmented,   \* history: add_spatial_index_to_stops was called in this call
    snapshot,    \* history: the store when this call was entered
    prevStatus,  \* history: how the previous call ended
    sameAsPrev,  \* history: this call was given the feed of the previous call
    sqlNames,    \* history: table names the SQL statements of this call named
    upc,         \* outcome of the last upload_file request
    zip_contents \* upload_file's zip_contents

ingestVars == <<store, ipc, feed, idx, ierr, touched, augmented, snapshot,
                prevStatus, sameAsPrev, sqlNames, upc, zip_contents>>

(***************************************************************************)
(* The two external collaborators: the gateway and the store               *)
(***************************************************************************)
\* llm_call either returns one of the texts or raises
LlmOutcomes(texts) ==
    {[ok |-> TRUE, val |-> t] : t \in texts}
        \cup {[ok |-> FALSE, val |-> g] : g \in GatewayErrors}

\* query_to_dict either returns a row list or raises
StoreOutcomes ==
    {[ok |-> TRUE, rows |-> r, err |-> "none"] : r \in RowLists}
        \cup {[ok |-> FALSE, rows |-> << >>, err |-> e] : e \in StoreErrors}

\* Python truthiness of a list: `if results:`
Truthy(rows) == Len(rows) > 0

\* json.dumps(..., cls=DecimalEncoder): raises TypeError on a value that is
\* neither JSON-native nor Decimal
JsonEncodable(rows) == \A i \in 1..Len(rows) : rows[i] # "d1"

\* validation_result.startswith("SUSPICIOUS")
StartsWithSuspicious(v) == Len(v) >= 1 /\ v[1] = "SUSPICIOUS"


(***************************************************************************)
(* Control decisions of the engine, one operator per decision              *)
(***************************************************************************)
\* variant: the loop runs once more, `range(max_retries + 1)`
LoopContinues_OneMore(a) == a <= max_retries

\* `for attempt in range(max_retries)`: the loop body runs while this holds
LoopContinues(a) == a < max_retries

\* variant: a correction ends the loop
AfterCorrection_ToFinal(a) == "final"

\* where a correction leaves the loop: back to the try, or to line 221
AfterCorrection(a) == IF LoopContinues(a + 1) THEN "execute" ELSE "final"

\* variant: an empty result is handled by the error branch
ClassifyRows_AsError(rows) == IF Truthy(rows) THEN "return" ELSE "correct_error"

\* `if results: return results, query  else: ... correct_empty_results`
ClassifyRows(rows) == IF Truthy(rows) THEN "return" ELSE "correct_empty"

\* variant: the final failure is reported with the message kept from the loop
FinalRaise_Stale(err, stale) == stale

\* line 221: the exception of the unguarded query_to_dict propagates as it is;
\* stale is the error_message local of an earlier attempt
FinalRaise(err, stale) == err

\* variant: the query of the first pass is kept, `results, _ = ...` at line 265
AssignFinalQuery_KeepFirst(old, returned) == IF old = "none" THEN returned ELSE old

\* `results, final_query = self.execute_query_with_retries(...)`
AssignFinalQuery(old, returned) == returned

\* variant: the second summary is validated again
AfterSummary_Revalidate(ph) == "validate"

\* after summarize_results: line 260 in the first pass, line 268 in the second
AfterSummary(ph) == IF ph = 1 THEN "validate" ELSE "returned"

\* variant: the corrective pass is not told apart from the first one
SecondPass_Same(ph) == ph

\* lines 263-268: the pass that follows a SUSPICIOUS verdict is the last one
SecondPass(ph) == 2

\* line 261
AfterValidate(v) == IF StartsWithSuspicious(v) THEN "suspicious" ELSE "returned"

\* history bookkeeping of one gateway call with outcome o
GatewayCalled(o) ==
    /\ gwFailed' = (gwFailed \/ ~o.ok)
    /\ afterFail' = afterFail + (IF gwFailed THEN 1 ELSE 0)

\* history bookkeeping of one store execution with outcome o
StoreExecuted(o, guarded) ==
    /\ nExec' = nExec + 1
    /\ nExecTotal' = nExecTotal + 1
    /\ afterFail' = afterFail + (IF gwFailed THEN 1 ELSE 0)
    /\ allFailed' = (allFailed /\ ~o.ok)
    /\ neverSucceeded' = (neverSucceeded /\ ~o.ok)
    /\ firstOutcome' = IF nExec = 0
                       THEN (IF ~o.ok THEN "error"
                             ELSE IF Truthy(o.rows) THEN "rows" ELSE "empty")
                       ELSE firstOutcome
    /\ lastExec' = [query |-> query,
                    kind |-> IF ~o.ok THEN "error"
                             ELSE IF Truthy(o.rows) THEN "rows" ELSE "empty",
                    rows |-> o.rows, err |-> o.err, guarded |-> guarded]

\* entry of execute_query_with_retries(q, ...)
EnterEqwr(q) ==
    /\ query' = q
    /\ attempt' = 0
    /\ error_message' = "none"
    /\ nExec' = 0
    /\ nCorrectEmpty' = 0
    /\ nEmptyGuarded' = 0
    /\ firstOutcome' = "none"
    /\ allFailed' = TRUE
    /\ nEqwr' = nEqwr + 1

\* line 241: the tables gtfs_schema lists
gtfs_tables == {t \in StoreNames : store[t].exists /\ t \in GTFS_COLUMN_TYPES_keys}

\* gtfs_processor.py:227-271: one entry per listed table, with the names of
\* its columns in ordinal position
gtfs_schema == [t \in gtfs_tables |-> store[t].cols]

(***************************************************************************)
(* chat and process_query                                                  *)
(***************************************************************************)
\* chat(): a request arrives, the engine is constructed (line 186 keeps the
\* schema text of that moment) and process_query is entered
chat ==
    /\ pc = "idle"
    /\ pc' = "generate"
    /\ schema' = gtfs_schema
    /\ UNCHANGED <<phase, attempt, query, error_message, results, final_query,
                   summary, validation_result, raised, nExec, nExecTotal,
                   nCorrectEmpty, nEmptyGuarded, firstOutcome, allFailed,
                   lastExec, neverSucceeded, lastCorrected, gwFailed, afterFail, nValidate,
                   nSummarize, nSuspCorrect, nEqwr>>

\* line 252 and the call of line 255
generate_query ==
    /\ pc = "generate"
    /\ \E o \in LlmOutcomes(Queries) :
        /\ GatewayCalled(o)
        /\ IF o.ok
           THEN /\ EnterEqwr(o.val)
                /\ phase' = 1
                /\ pc' = IF LoopContinues(0) THEN "execute" ELSE "final"
                /\ UNCHANGED raised
           ELSE /\ raised' = [src |-> "gateway", msg |-> o.val]
                /\ pc' = "raised"
                /\ UNCHANGED <<phase, attempt, query, error_message, nExec,
                               nCorrectEmpty, nEmptyGuarded, firstOutcome,
                               allFailed, nEqwr>>
    /\ UNCHANGED <<results, final_query, summary, validation_result,
                   nExecTotal, lastExec, neverSucceeded, lastCorrected, nValidate, nSummarize,
                   nSuspCorrect>>
    /\ UNCHANGED schema

\* lines 206-211 and 214-216: one guarded query_to_dict and its classification
guarded_execute ==
    /\ pc = "execute"
    /\ \E o \in StoreOutcomes :
        /\ StoreExecuted(o, TRUE)
        /\ IF ~o.ok
           THEN /\ error_message' = o.err
                /\ pc' = "correct_error"
                /\ UNCHANGED <<results, final_query, nEmptyGuarded>>
           ELSE IF ClassifyRows(o.rows) = "return"
           THEN /\ results' = o.rows
                /\ final_query' = AssignFinalQuery(final_query, query)
                /\ pc' = "summarize"
                /\ UNCHANGED <<error_message, nEmptyGuarded>>
           ELSE /\ pc' = ClassifyRows(o.rows)
                /\ nEmptyGuarded' = nEmptyGuarded + 1
                /\ UNCHANGED <<results, final_query, error_message>>
    /\ UNCHANGED <<phase, attempt, query, summary, validation_result, raised,
                   nCorrectEmpty, lastCorrected, gwFailed, nValidate,
                   nSummarize, nSuspCorrect, nEqwr>>
    /\ UNCHANGED schema

\* line 212, inside the try: an exception of llm_call is caught by line 214
correct_empty_results ==
    /\ pc = "correct_empty"
    /\ \E o \in LlmOutcomes(Queries) :
        /\ GatewayCalled(o)
        /\ nCorrectEmpty' = nCorrectEmpty + 1
        /\ IF o.ok
           THEN /\ query' = o.val
                /\ lastCorrected' = o.val
                /\ attempt' = attempt + 1
                /\ pc' = AfterCorrection(attempt)
                /\ UNCHANGED error_message
           ELSE /\ error_message' = o.val
                /\ pc' = "correct_error"
                /\ UNCHANGED <<query, lastCorrected, attempt>>
    /\ UNCHANGED <<phase, results, final_query, summary, validation_result,
                   raised, nExec, nExecTotal, nEmptyGuarded, firstOutcome,
                   allFailed, lastExec, neverSucceeded, nValidate, nSummarize, nSuspCorrect,
                   nEqwr>>
    /\ UNCHANGED schema

\* line 217, inside the except: an exception of llm_call leaves the function
correct_sql_error ==
    /\ pc = "correct_error"
    /\ \E o \in LlmOutcomes(Queries) :
        /\ GatewayCalled(o)
        /\ IF o.ok
           THEN /\ query' = o.val
                /\ lastCorrected' = o.val
                /\ attempt' = attempt + 1
                /\ pc' = AfterCorrection(attempt)
                /\ UNCHANGED raised
           ELSE /\ raised' = [src |-> "gateway", msg |-> o.val]
                /\ pc' = "raised"
                /\ UNCHANGED <<query, lastCorrected, attempt>>
    /\ UNCHANGED <<phase, error_message, results, final_query, summary,
                   validation_result, nExec, nExecTotal, nCorrectEmpty,
                   nEmptyGuarded, firstOutcome, allFailed, lastExec, neverSucceeded, nValidate,
                   nSummarize, nSuspCorrect, nEqwr>>
    /\ UNCHANGED schema

\* line 221: the last, unguarded query_to_dict
final_execute ==
    /\ pc = "final"
    /\ \E o \in StoreOutcomes :
        /\ StoreExecuted(o, FALSE)
        /\ IF o.ok
           THEN /\ results' = o.rows
                /\ final_query' = AssignFinalQuery(final_query, query)
                /\ pc' = "summarize"
                /\ UNCHANGED raised
           ELSE /\ raised' = [src |-> "store",
                              msg |-> FinalRaise(o.err, error_message)]
                /\ pc' = "raised"
                /\ UNCHANGED <<results, final_query>>
    /\ UNCHANGED <<phase, attempt, query, error_message, summary,
                   validation_result, nCorrectEmpty, nEmptyGuarded,
                   lastCorrected, gwFailed, nValidate, nSummarize,
                   nSuspCorrect, nEqwr>>
    /\ UNCHANGED schema

\* lines 258 and 266: json.dumps of the rows, then the gateway call
summarize_results ==
    /\ pc = "summarize"
    /\ nSummarize' = nSummarize + 1
    /\ IF ~JsonEncodable(results)
       THEN /\ raised' = [src |-> "encode", msg |-> "TypeError"]
            /\ pc' = "raised"
            /\ UNCHANGED <<summary, gwFailed, afterFail>>
       ELSE \E o \in LlmOutcomes(Summaries) :
            /\ GatewayCalled(o)
            /\ IF o.ok
               THEN /\ summary' = o.val
                    /\ pc' = AfterSummary(phase)
                    /\ UNCHANGED raised
               ELSE /\ raised' = [src |-> "gateway", msg |-> o.val]
                    /\ pc' = "raised"
                    /\ UNCHANGED summary
    /\ UNCHANGED <<phase, attempt, query, error_message, results, final_query,
                   validation_result, nExec, nExecTotal, nCorrectEmpty,
                   nEmptyGuarded, firstOutcome, allFailed, lastExec, neverSucceeded,
                   lastCorrected, nValidate, nSuspCorrect, nEqwr>>
    /\ UNCHANGED schema

\* lines 260-261
validate_data ==
    /\ pc = "validate"
    /\ nValidate' = nValidate + 1
    /\ \E o \in LlmOutcomes(Verdicts) :
        /\ GatewayCalled(o)
        /\ IF o.ok
           THEN /\ validation_result' = o.val
                /\ pc' = AfterValidate(o.val)
                /\ UNCHANGED raised
           ELSE /\ raised' = [src |-> "gateway", msg |-> o.val]
                /\ pc' = "raised"
                /\ UNCHANGED validation_result
    /\ UNCHANGED <<phase, attempt, query, error_message, results, final_query,
                   summary, nExec, nExecTotal, nCorrectEmpty, nEmptyGuarded,
                   firstOutcome, allFailed, lastExec, neverSucceeded, lastCorrected,
                   nSummarize, nSuspCorrect, nEqwr>>
    /\ UNCHANGED schema

\* lines 263-265: the correction after a SUSPICIOUS verdict and the second
\* call of execute_query_with_retries
correct_suspicious ==
    /\ pc = "suspicious"
    /\ nSuspCorrect' = nSuspCorrect + 1
    /\ \E o \in LlmOutcomes(Queries) :
        /\ GatewayCalled(o)
        /\ IF o.ok
           THEN /\ EnterEqwr(o.val)
                /\ lastCorrected' = o.val
                /\ phase' = SecondPass(phase)
                /\ pc' = IF LoopContinues(0) THEN "execute" ELSE "final"
                /\ UNCHANGED raised
           ELSE /\ raised' = [src |-> "gateway", msg |-> o.val]
                /\ pc' = "raised"
                /\ UNCHANGED <<phase, attempt, query, error_message, nExec,
                               nCorrectEmpty, nEmptyGuarded, firstOutcome,
                               allFailed, nEqwr, lastCorrected>>
    /\ UNCHANGED <<results, final_query, summary, validation_result,
                   nExecTotal, lastExec, neverSucceeded, nValidate, nSummarize>>
    /\ UNCHANGED schema

(***************************************************************************)
(* process_gtfs_feed                                                       *)
(***************************************************************************)
FeedFileNames(f) == {f[i].name : i \in 1..Len(f)}

\* variant: every entry of the feed is handed to process_gtfs_file
Selected_All(filename) == TRUE

\* line 221
Selected(filename) == filename \in VALID_GTFS_FILES

\* variant: only the tables of the files of the new feed are dropped
cleanup_table_names_FeedOnly == {table_name_of(file) : file \in FeedFileNames(feed)}

\* line 203: the tables cleanup_tables drops
cleanup_table_names == {table_name_of(file) : file \in VALID_GTFS_FILES}

\* variant: the table is left as it is
DropTable_Keep(tbl) == tbl

\* DROP TABLE IF EXISTS ... CASCADE
DropTable(tbl) == Absent

\* lines 220-225: where the loop stands when it reaches position i
LoopPc(i) ==
    IF i <= Len(feed) THEN "file"
    ELSE IF <<"stops", "txt">> \in FeedFileNames(feed) THEN "spatial"
    ELSE "done"

\* variant: the exception is swallowed and the loop goes on with the next file
OnFileFailure_Continue(i) == [pc |-> LoopPc(i + 1), idx |-> i + 1]

\* an exception of process_gtfs_file leaves the loop and process_gtfs_feed
OnFileFailure(i) == [pc |-> "failed", idx |-> i]

\* lines 174-186: CREATE TABLE IF NOT EXISTS with one column per df column
CreateTableIfNotExists(tbl, header) ==
    IF tbl.exists THEN tbl
    ELSE [exists |-> TRUE, cols |-> header, rows |-> 0, geom |-> FALSE,
          index |-> FALSE]

\* copy_from without a column list: every line must have one field per column
CopyAccepted(tbl, file) ==
    /\ file.defect # "load"
    /\ tbl.exists
    /\ Len(tbl.cols) = Len(file.header)

HasColumn(tbl, c) == \E i \in 1..Len(tbl.cols) : tbl.cols[i] = c

\* line 210: ALTER TABLE stops ADD COLUMN IF NOT EXISTS geometry
AddGeometryColumn(tbl) ==
    IF HasColumn(tbl, "geometry") THEN tbl
    ELSE [tbl EXCEPT !.cols = Append(tbl.cols, "geometry"), !.geom = TRUE]

\* line 211 needs the columns stop_lon and stop_lat
UpdateGeometryAccepted(tbl) ==
    HasColumn(tbl, "stop_lon") /\ HasColumn(tbl, "stop_lat")

\* line 212: a GiST index needs a column of type geometry, which a text
\* column named geometry of the source file is not
CreateIndexAccepted(tbl) == tbl.geom

\* the first step of a call process_gtfs_feed(f)
EnterProcessGtfsFeed(f) ==
    /\ feed' = f
    /\ sameAsPrev' = (ipc # "idle" /\ f = feed)
    /\ ipc' = "cleanup"
    /\ idx' = 1
    /\ ierr' = "none"
    /\ touched' = {}
    /\ augmented' = FALSE
    /\ snapshot' = store
    /\ prevStatus' = ipc
    /\ sqlNames' = {}
    /\ UNCHANGED store

\* process_gtfs_feed(feed_content) is entered
process_gtfs_feed ==
    /\ ipc \in {"idle", "done", "failed"}
    /\ \E f \in Feeds : EnterProcessGtfsFeed(f)
    /\ UNCHANGED <<upc, zip_contents>>

\* routes.py:30-33: the entries of the archive whose name is in the allow-list
ZipContents(archive) == SelectSeq(archive, LAMBDA e : e.name \in VALID_GTFS_FILES)

\* variant: the check of line 35 is missing
RejectArchive_Never(zc) == FALSE

\* routes.py:35, `if not zip_contents`
RejectArchive(zc) == Len(zc) = 0

\* routes.py:15-46, upload_file up to the call of process_gtfs_feed
upload_file ==
    /\ ipc \in {"idle", "done", "failed"}
    /\ \E archive \in Feeds :
        /\ zip_contents' = ZipContents(archive)
        /\ IF RejectArchive(ZipContents(archive))
           THEN /\ upc' = "rejected"
                /\ UNCHANGED <<store, ipc, feed, idx, ierr, touched, augmented,
                               snapshot, prevStatus, sameAsPrev, sqlNames>>
           ELSE /\ upc' = "accepted"
                /\ EnterProcessGtfsFeed(ZipContents(archive))

\* lines 202-206
cleanup_tables ==
    /\ ipc = "cleanup"
    /\ store' = [t \in StoreNames |->
                    IF t \in cleanup_table_names THEN DropTable(store[t])
                    ELSE store[t]]
    /\ ipc' = LoopPc(1)
    /\ sqlNames' = sqlNames \cup cleanup_table_names
    /\ UNCHANGED <<feed, idx, ierr, touched, augmented, snapshot, prevStatus,
                   sameAsPrev, upc, zip_contents>>

\* line 221, false branch: the entry is passed over
skip_file ==
    /\ ipc = "file"
    /\ ~Selected(feed[idx].name)
    /\ idx' = idx + 1
    /\ ipc' = LoopPc(idx + 1)
    /\ UNCHANGED <<store, feed, ierr, touched, augmented, snapshot,
                   prevStatus, sameAsPrev, sqlNames, upc, zip_contents>>

\* process_gtfs_file, lines 168-186: the name check, read_gtfs, CREATE TABLE
process_gtfs_file_create ==
    /\ ipc = "file"
    /\ Selected(feed[idx].name)
    /\ touched' = touched \cup {feed[idx].name}
    /\ LET file == feed[idx]
           t == table_name_of(file.name)
       IN IF file.name \notin VALID_GTFS_FILES
          THEN /\ ierr' = "ValueError"
               /\ ipc' = OnFileFailure(idx).pc
               /\ idx' = OnFileFailure(idx).idx
               /\ UNCHANGED <<store, sqlNames>>
          ELSE IF file.defect = "parse"
          THEN /\ ierr' = "parse"
               /\ ipc' = OnFileFailure(idx).pc
               /\ idx' = OnFileFailure(idx).idx
               /\ UNCHANGED <<store, sqlNames>>
          ELSE /\ store' = [store EXCEPT
                               ![t] = CreateTableIfNotExists(store[t], file.header)]
               /\ sqlNames' = sqlNames \cup {t}
               /\ ipc' = "copy"
               /\ UNCHANGED <<ierr, idx>>
    /\ UNCHANGED <<feed, augmented, snapshot, prevStatus, sameAsPrev, upc,
                   zip_contents>>

\* process_gtfs_file, lines 188-200: the bulk load
process_gtfs_file_copy ==
    /\ ipc = "copy"
    /\ LET file == feed[idx]
           t == table_name_of(file.name)
       IN IF CopyAccepted(store[t], file)
          THEN /\ store' = [store EXCEPT ![t].rows = @ + file.nrows]
               /\ idx' = idx + 1
               /\ ipc' = LoopPc(idx + 1)
               /\ UNCHANGED ierr
          ELSE /\ ierr' = "load"
               /\ ipc' = OnFileFailure(idx).pc
               /\ idx' = OnFileFailure(idx).idx
               /\ UNCHANGED store
    /\ sqlNames' = sqlNames \cup {table_name_of(feed[idx].name)}
    /\ UNCHANGED <<feed, touched, augmented, snapshot, prevStatus, sameAsPrev,
                   upc, zip_contents>>

\* lines 208-215, each statement committed on its own (autocommit)
add_spatial_index_to_stops ==
    /\ ipc = "spatial"
    /\ augmented' = TRUE
    /\ LET stops == store["stops"]
           altered == AddGeometryColumn(stops)
       IN IF ~stops.exists
          THEN /\ ierr' = "spatial"
               /\ ipc' = "failed"
               /\ UNCHANGED store
          ELSE IF ~UpdateGeometryAccepted(altered) \/ ~CreateIndexAccepted(altered)
          THEN /\ ierr' = "spatial"
               /\ ipc' = "failed"
               /\ store' = [store EXCEPT !["stops"] = altered]
          ELSE /\ store' = [store EXCEPT !["stops"] = [altered EXCEPT !.index = TRUE]]
               /\ ipc' = "done"
               /\ UNCHANGED ierr
    /\ sqlNames' = sqlNames \cup {"stops"}
    /\ UNCHANGED <<feed, idx, touched, snapshot, prevStatus, sameAsPrev, upc,
                   zip_contents>>

\* feeds of the ingestions that run next to a chat request or a reader
ConcurrentFeeds ==
    {f \in Feeds : /\ Len(f) = 1
                   /\ f[1].name \in {<<"stops", "txt">>, <<"routes", "txt">>}
                   /\ f[1].defect = "none"
                   /\ f[1].nrows = 2}

\* process_gtfs_feed(feed_content) is entered by an upload that runs next to
\* other requests
process_gtfs_feed_concurrent ==
    /\ ipc \in {"idle", "done", "failed"}
    /\ \E f \in ConcurrentFeeds : EnterProcessGtfsFeed(f)
    /\ UNCHANGED <<upc, zip_contents>>

(***************************************************************************)
(* A reader: the query endpoint                                            *)
(***************************************************************************)
VARIABLES
    obs          \* what the last query of the reader saw of a table

readerVars == <<obs>>

NoObs == [table |-> "none", seen |-> "none"]

\* what `SELECT ... FROM t` gives: an error for a table that does not
\* exist, else its rows
Observe(tbl) ==
    IF ~tbl.exists THEN "missing"
    ELSE IF tbl.rows = 0 THEN "empty"
    ELSE "rows"

\* variant: a query waits until no ingestion is running
ReaderAdmitted_Serialized(p) == p \in {"idle", "done", "failed"}

\* database.py:26 and 61-67: the connection is in autocommit mode and
\* neither query_to_dict nor process_gtfs_feed takes a lock, so a query runs
\* whatever the ingestion is doing
ReaderAdmitted(p) == TRUE

\* routes.py:48-56, the query endpoint: query_to_dict on the store as it is
execute_query ==
    /\ ReaderAdmitted(ipc)
    /\ \E t \in {"stops", "routes"} :
         obs' = [table |-> t, seen |-> Observe(store[t])]

InitReader == obs = NoObs

(***************************************************************************)
(* database.py: the process-wide connection                                *)
(***************************************************************************)
\* database.py:8
db_max_retries == 3

\* bound: connection objects psycopg2.connect makes in one run
MaxConns == 2

\* the requests that call get_db_connection
Threads == {1, 2}

\* the callers of get_db_connection: query_to_dict and execute_query use the
\* connection; process_gtfs_file and gtfs_schema use it and then close it
CallerKinds == {"query_to_dict", "process_gtfs_file", "gtfs_schema"}

\* the exceptions line 38 catches
RetryErrors == {"OperationalError", "InterfaceError"}

VARIABLES
    conn,        \* the global conn: 0 is None, else a connection object
    nConns,      \* connection objects made so far: 1..nConns
    closedObjs,  \* objects whose .closed is set
    brokenObjs,  \* open objects whose server side is gone
    tpc,         \* per request: idle, attempt, use, close, raised
    tkind,       \* per request: the caller of get_db_connection
    tattempt,    \* per request: the loop variable attempt
    held,        \* per request: the object get_db_connection returned
    terr,        \* per request: the exception that left get_db_connection
    tAttempts,   \* history: loop iterations of the current call
    tLastErr,    \* history: the exception of the last iteration, or none
    tHow         \* history: how the returned object was obtained

connVars == <<conn, nConns, closedObjs, brokenObjs, tpc, tkind, tattempt,
              held, terr, tAttempts, tLastErr, tHow>>

\* line 16: `conn is None or conn.closed`
ConnectBranch(cn) == cn = 0 \/ cn \in closedObjs

\* variant: the cached connection is kept for the next attempt
OnAttemptFailure_KeepConn(a, cn) ==
    IF a < db_max_retries - 1
    THEN [pc |-> "attempt", attempt |-> a + 1, conn |-> cn]
    ELSE [pc |-> "raised", attempt |-> a, conn |-> cn]

\* lines 38-45: on a non-final attempt conn is set to None and the loop goes
\* on; on the final attempt the exception is raised again
OnAttemptFailure(a, cn) ==
    IF a < db_max_retries - 1
    THEN [pc |-> "attempt", attempt |-> a + 1, conn |-> 0]
    ELSE [pc |-> "raised", attempt |-> a, conn |-> cn]

\* a call of get_db_connection by request t
get_db_connection(t) ==
    /\ tpc[t] \in {"idle", "raised"}
    /\ \E k \in CallerKinds : tkind' = [tkind EXCEPT ![t] = k]
    /\ tpc' = [tpc EXCEPT ![t] = "attempt"]
    /\ tattempt' = [tattempt EXCEPT ![t] = 0]
    /\ held' = [held EXCEPT ![t] = 0]
    /\ terr' = [terr EXCEPT ![t] = "none"]
    /\ tAttempts' = [tAttempts EXCEPT ![t] = 0]
    /\ tLastErr' = [tLastErr EXCEPT ![t] = "none"]
    /\ tHow' = [tHow EXCEPT ![t] = "none"]
    /\ UNCHANGED <<conn, nConns, closedObjs, brokenObjs>>

\* the attempt of request t ends with exception e caught at line 38; cn is
\* the value the try body left in the global conn
AttemptFails(t, e, cn) ==
    /\ conn' = OnAttemptFailure(tattempt[t], cn).conn
    /\ tpc' = [tpc EXCEPT ![t] = OnAttemptFailure(tattempt[t], cn).pc]
    /\ tattempt' = [tattempt EXCEPT ![t] = OnAttemptFailure(tattempt[t], cn).attempt]
    /\ terr' = [terr EXCEPT ![t] =
                  IF OnAttemptFailure(tattempt[t], cn).pc = "raised" THEN e ELSE @]
    /\ tLastErr' = [tLastErr EXCEPT ![t] = e]
    /\ UNCHANGED <<held, tHow>>

\* the attempt of request t reaches `return conn` at line 36 with object c
AttemptReturns(t, c, how) ==
    /\ conn' = c
    /\ held' = [held EXCEPT ![t] = c]
    /\ tpc' = [tpc EXCEPT ![t] = "use"]
    /\ tHow' = [tHow EXCEPT ![t] = how]
    /\ tLastErr' = [tLastErr EXCEPT ![t] = "none"]
    /\ UNCHANGED <<tattempt, terr>>

\* lines 16-27 of one loop iteration: conn is None or closed, so connect
attempt_connect(t) ==
    /\ tpc[t] = "attempt"
    /\ ConnectBranch(conn)
    /\ tAttempts' = [tAttempts EXCEPT ![t] = @ + 1]
    /\ \/ \* psycopg2.connect raises: conn keeps its value
          /\ \E e \in RetryErrors : AttemptFails(t, e, conn)
          /\ UNCHANGED nConns
       \/ \* connect succeeds, a set-up statement of lines 28-29 raises
          /\ nConns < MaxConns
          /\ nConns' = nConns + 1
          /\ \E e \in RetryErrors : AttemptFails(t, e, nConns + 1)
       \/ \* a set-up statement raises an exception line 38 does not catch
          /\ nConns < MaxConns
          /\ nConns' = nConns + 1
          /\ conn' = nConns + 1
          /\ tpc' = [tpc EXCEPT ![t] = "raised"]
          /\ terr' = [terr EXCEPT ![t] = "ProgrammingError"]
          /\ tLastErr' = [tLastErr EXCEPT ![t] = "ProgrammingError"]
          /\ UNCHANGED <<tattempt, held, tHow>>
       \/ \* connect and set-up succeed
          /\ nConns < MaxConns
          /\ nConns' = nConns + 1
          /\ AttemptReturns(t, nConns + 1, "connected")
    /\ UNCHANGED <<closedObjs, brokenObjs, tkind>>

\* lines 30-34 of one loop iteration: the cached connection is probed
attempt_probe(t) ==
    /\ tpc[t] = "attempt"
    /\ ~ConnectBranch(conn)
    /\ tAttempts' = [tAttempts EXCEPT ![t] = @ + 1]
    /\ IF conn \in brokenObjs
       THEN \E e \in RetryErrors : AttemptFails(t, e, conn)
       ELSE AttemptReturns(t, conn, "probed")
    /\ UNCHANGED <<nConns, closedObjs, brokenObjs, tkind>>

\* the caller runs its statement on the object it was given
use_connection(t) ==
    /\ tpc[t] = "use"
    /\ tpc' = [tpc EXCEPT ![t] =
                 IF tkind[t] = "query_to_dict" THEN "idle" ELSE "close"]
    /\ UNCHANGED <<conn, nConns, closedObjs, brokenObjs, tkind, tattempt,
                   held, terr, tAttempts, tLastErr, tHow>>

\* gtfs_processor.py:200 and 269, `conn.close()` in the finally clause
close_connection(t) ==
    /\ tpc[t] = "close"
    /\ closedObjs' = closedObjs \cup {held[t]}
    /\ tpc' = [tpc EXCEPT ![t] = "idle"]
    /\ UNCHANGED <<conn, nConns, brokenObjs, tkind, tattempt, held, terr,
                   tAttempts, tLastErr, tHow>>

\* the server ends the session of an open connection
server_drops ==
    /\ \E c \in (1..nConns) \ (closedObjs \cup brokenObjs) :
         brokenObjs' = brokenObjs \cup {c}
    /\ UNCHANGED <<conn, nConns, closedObjs, tpc, tkind, tattempt, held, terr,
                   tAttempts, tLastErr, tHow>>

InitConn ==
    /\ conn = 0
    /\ nConns = 0
    /\ closedObjs = {}
    /\ brokenObjs = {}
    /\ tpc = [t \in Threads |-> "idle"]
    /\ tkind = [t \in Threads |-> "query_to_dict"]
    /\ tattempt = [t \in Threads |-> 0]
    /\ held = [t \in Threads |-> 0]
    /\ terr = [t \in Threads |-> "none"]
    /\ tAttempts = [t \in Threads |-> 0]
    /\ tLastErr = [t \in Threads |-> "none"]
    /\ tHow = [t \in Threads |-> "none"]

(***************************************************************************)
(* engine.py: llm_call and the (provider, model) pair of a request         *)
(***************************************************************************)
\* engine.py:111-120: provider -> its list of models
LLM_CLIENTS ==
    [anthropic |-> <<"claude-3-5-sonnet-20240620">>,
     groq |-> <<"llama-3.1-70b-versatile", "llama-3.1-405b-reasoning">>]

\* provider and model names a request may carry; "None" is Python's None
Companies == {"anthropic", "groq", "openai"}
ModelNames == {"claude-3-5-sonnet-20240620", "claude-3-sonnet-20240229",
               "llama-3.1-70b-versatile", "llama-3.1-405b-reasoning", "gpt-4o"}

\* bound: gateway calls of one request
MaxCalls == 4

\* company_model strings as their parts around ' - '
CompanyModels == {<<c, m>> : c \in Companies, m \in ModelNames}

\* `company, model = company_model.split(' - ')`
SplitCompanyModel(cm) == [company |-> cm[1], model |-> cm[2]]

\* engine.py:282, the default of request.json.get('company_model', ...)
chat_default == <<"anthropic", "claude-3-sonnet-20240229">>

\* engine.py:251, the defaults of process_query's parameters
process_query_defaults == [company |-> "anthropic",
                           model |-> "claude-3-sonnet-20240229"]

\* engine.py:128, the defaults of llm_call's parameters
llm_call_defaults == [company |-> "anthropic", model |-> "None"]

SeqRange(q) == {q[i] : i \in 1..Len(q)}

\* lines 142-150: the checks of llm_call; the model it goes on with, or the
\* ValueError it raises
ResolveModel(client_name, model) ==
    IF client_name \notin DOMAIN LLM_CLIENTS
    THEN [ok |-> FALSE, model |-> "none"]
    ELSE IF model = "None"
    THEN [ok |-> TRUE, model |-> LLM_CLIENTS[client_name][1]]
    ELSE IF model \notin SeqRange(LLM_CLIENTS[client_name])
    THEN [ok |-> FALSE, model |-> "none"]
    ELSE [ok |-> TRUE, model |-> model]

VARIABLES
    lpc,         \* idle, call (llm_call entered), contacted, raised
    entry,       \* which function the request entered: chat, process_query, llm_call
    omitted,     \* the caller left the pair to the defaults
    company,     \* client_name
    model,       \* model
    contacted,   \* the (provider, model) of the last provider call
    lerr,        \* the exception llm_call raised
    nCalls       \* history: provider calls of the request

llmVars == <<lpc, entry, omitted, company, model, contacted, lerr, nCalls>>

NoPair == <<"none", "none">>

\* the request enters with the pair p
EnterWithPair(e, om, p) ==
    /\ lpc = "idle"
    /\ lpc' = "call"
    /\ entry' = e
    /\ omitted' = om
    /\ company' = p.company
    /\ model' = p.model
    /\ UNCHANGED <<contacted, lerr, nCalls>>

\* engine.py:280-289: chat with a company_model in the request
chat_with_company_model ==
    \E cm \in CompanyModels : EnterWithPair("chat", FALSE, SplitCompanyModel(cm))

\* engine.py:280-289: chat without company_model
chat_without_company_model ==
    EnterWithPair("chat", TRUE, SplitCompanyModel(chat_default))

\* engine.py:251: process_query called without company and model
process_query_without_pair ==
    EnterWithPair("process_query", TRUE, process_query_defaults)

\* engine.py:128: llm_call called by another caller, with or without a pair
llm_call_direct ==
    \/ EnterWithPair("llm_call", TRUE, llm_call_defaults)
    \/ \E c \in Companies, m \in ModelNames \cup {"None"} :
          EnterWithPair("llm_call", FALSE, [company |-> c, model |-> m])

\* engine.py:142-178: the checks, then the provider call
llm_call ==
    /\ lpc = "call"
    /\ IF ResolveModel(company, model).ok
       THEN /\ contacted' = <<company, ResolveModel(company, model).model>>
            /\ lpc' = "contacted"
            /\ nCalls' = nCalls + 1
            /\ UNCHANGED lerr
       ELSE /\ lerr' = "ValueError"
            /\ lpc' = "raised"
            /\ UNCHANGED <<contacted, nCalls>>
    /\ UNCHANGED <<entry, omitted, company, model>>

\* the caller goes on to its next llm_call with the same pair
next_llm_call ==
    /\ lpc = "contacted"
    /\ nCalls < MaxCalls
    /\ lpc' = "call"
    /\ UNCHANGED <<entry, omitted, company, model, contacted, lerr, nCalls>>

InitLlm ==
    /\ lpc = "idle"
    /\ entry = "none"
    /\ omitted = FALSE
    /\ company = "none"
    /\ model = "none"
    /\ contacted = NoPair
    /\ lerr = "none"
    /\ nCalls = 0

NextLlm ==
    \/ chat_with_company_model
    \/ chat_without_company_model
    \/ process_query_without_pair
    \/ llm_call_direct
    \/ llm_call
    \/ next_llm_call

InitIngest ==
    /\ store = [t \in StoreNames |-> Absent]
    /\ ipc = "idle"
    /\ feed = << >>
    /\ idx = 1
    /\ ierr = "none"
    /\ touched = {}
    /\ augmented = FALSE
    /\ snapshot = [t \in StoreNames |-> Absent]
    /\ prevStatus = "idle"
    /\ sameAsPrev = FALSE
    /\ sqlNames = {}
    /\ upc = "none"
    /\ zip_contents = << >>

NextIngest ==
    \/ process_gtfs_feed
    \/ cleanup_tables
    \/ skip_file
    \/ process_gtfs_file_create
    \/ process_gtfs_file_copy
    \/ add_spatial_index_to_stops

InitEngine ==
    /\ pc = "idle"
    /\ phase = 1
    /\ attempt = 0
    /\ query = "none"
    /\ error_message = "none"
    /\ results = << >>
    /\ final_query = "none"
    /\ summary = "none"
    /\ validation_result = << >>
    /\ raised = NoError
    /\ nExec = 0
    /\ nExecTotal = 0
    /\ nCorrectEmpty = 0
    /\ nEmptyGuarded = 0
    /\ firstOutcome = "none"
    /\ allFailed = TRUE
    /\ neverSucceeded = TRUE
    /\ lastExec = NoExec
    /\ lastCorrected = "none"
    /\ gwFailed = FALSE
    /\ afterFail = 0
    /\ nValidate = 0
    /\ nSummarize = 0
    /\ nSuspCorrect = 0
    /\ nEqwr = 0
    /\ schema = [t \in {} |-> << >>]

NextEngine ==
    \/ chat
    \/ generate_query
    \/ guarded_execute
    \/ correct_empty_results
    \/ correct_sql_error
    \/ final_execute
    \/ summarize_results
    \/ validate_data
    \/ correct_suspicious

vars == <<engineVars, ingestVars, readerVars, connVars, llmVars>>

Init == InitEngine /\ InitIngest /\ InitReader /\ InitConn /\ InitLlm

SpecEngine ==
    Init /\ [][NextEngine /\ UNCHANGED <<ingestVars, readerVars, connVars, llmVars>>]_vars

\* every gateway call and every store execution returns or raises, so a
\* request that can take a step takes one
SpecEngineLive ==
    SpecEngine /\ WF_vars(NextEngine /\ UNCHANGED <<ingestVars, readerVars, connVars, llmVars>>)

SpecIngest ==
    Init /\ [][NextIngest /\ UNCHANGED <<engineVars, readerVars, connVars, llmVars>>]_vars

\* the ingestion as the upload endpoint drives it
NextUpload ==
    \/ upload_file
    \/ cleanup_tables
    \/ process_gtfs_file_create
    \/ process_gtfs_file_copy
    \/ add_spatial_index_to_stops

SpecUpload ==
    Init /\ [][NextUpload /\ UNCHANGED <<engineVars, readerVars, connVars, llmVars>>]_vars

\* a chat request up to the end of its first retry loop, next to ingestions
NextConcurrent ==
    \/ chat /\ UNCHANGED <<ingestVars, readerVars, connVars, llmVars>>
    \/ generate_query /\ UNCHANGED <<ingestVars, readerVars, connVars, llmVars>>
    \/ guarded_execute /\ UNCHANGED <<ingestVars, readerVars, connVars, llmVars>>
    \/ correct_empty_results /\ UNCHANGED <<ingestVars, readerVars, connVars, llmVars>>
    \/ correct_sql_error /\ UNCHANGED <<ingestVars, readerVars, connVars, llmVars>>
    \/ process_gtfs_feed_concurrent /\ UNCHANGED <<engineVars, readerVars, connVars, llmVars>>
    \/ cleanup_tables /\ UNCHANGED <<engineVars, readerVars, connVars, llmVars>>
    \/ process_gtfs_file_create /\ UNCHANGED <<engineVars, readerVars, connVars, llmVars>>
    \/ process_gtfs_file_copy /\ UNCHANGED <<engineVars, readerVars, connVars, llmVars>>
    \/ add_spatial_index_to_stops /\ UNCHANGED <<engineVars, readerVars, connVars, llmVars>>

SpecConcurrent == Init /\ [][NextConcurrent]_vars

\* queries of the query endpoint next to ingestions
NextReader ==
    \/ execute_query /\ UNCHANGED <<engineVars, ingestVars, connVars, llmVars>>
    \/ process_gtfs_feed_concurrent /\ UNCHANGED <<engineVars, readerVars, connVars, llmVars>>
    \/ cleanup_tables /\ UNCHANGED <<engineVars, readerVars, connVars, llmVars>>
    \/ process_gtfs_file_create /\ UNCHANGED <<engineVars, readerVars, connVars, llmVars>>
    \/ process_gtfs_file_copy /\ UNCHANGED <<engineVars, readerVars, connVars, llmVars>>
    \/ add_spatial_index_to_stops /\ UNCHANGED <<engineVars, readerVars, connVars, llmVars>>

SpecReader == Init /\ [][NextReader]_vars

SpecLlm ==
    Init /\ [][NextLlm /\ UNCHANGED <<engineVars, ingestVars, readerVars, connVars>>]_vars

\* one request at a time
NextGetConn ==
    \/ get_db_connection(1)
    \/ attempt_connect(1)
    \/ attempt_probe(1)
    \/ use_connection(1)
    \/ close_connection(1)
    \/ server_drops

SpecGetConn ==
    Init /\ [][NextGetConn /\ UNCHANGED <<engineVars, ingestVars, readerVars, llmVars>>]_vars

\* requests that run at the same time
NextSharedConn ==
    \/ \E t \in Threads : get_db_connection(t)
    \/ \E t \in Threads : attempt_connect(t)
    \/ \E t \in Threads : attempt_probe(t)
    \/ \E t \in Threads : use_connection(t)
    \/ \E t \in Threads : close_connection(t)
    \/ server_drops

SpecSharedConn ==
    Init /\ [][NextSharedConn /\ UNCHANGED <<engineVars, ingestVars, readerVars, llmVars>>]_vars


(***************************************************************************)
(* Properties of the query correction engine                               *)
(***************************************************************************)

\* C1: one call of execute_query_with_retries executes SQL at most
\* max_retries + 1 = 4 times, and a request all of whose executions raise
\* executes at most 4 times in total.
C1_AtMostFourExecutions ==
    /\ nExec <= max_retries + 1
    /\ neverSucceeded => nExecTotal <= max_retries + 1

C1_Witness ==
    /\ pc = "raised"
    /\ raised.src = "store"
    /\ neverSucceeded
    /\ nExec = max_retries + 1
    /\ nExecTotal = max_retries + 1

\* C2: after a gateway call of the request has failed, no further gateway
\* call and no further store execution is made in that request.
C2_NothingAfterGatewayFailure == afterFail = 0

\* C3: validate_data is called at most once in a request; a request that
\* returns after a SUSPICIOUS verdict made exactly one correction of line 263,
\* one more execute_query_with_retries call and one more summarization, and a
\* request that returns after another verdict made none of them.
C3_OneCorrectiveCycle ==
    /\ nValidate <= 1
    /\ nSuspCorrect <= 1
    /\ nEqwr <= 2
    /\ nSummarize <= 2
    /\ nSuspCorrect = 1 => nValidate = 1 /\ StartsWithSuspicious(validation_result)
    /\ nEqwr = 2 => nSuspCorrect = 1
    /\ nSummarize = 2 => nEqwr = 2
    /\ pc = "returned" =>
         IF StartsWithSuspicious(validation_result)
         THEN nSuspCorrect = 1 /\ nEqwr = 2 /\ nSummarize = 2 /\ nValidate = 1
         ELSE nSuspCorrect = 0 /\ nEqwr = 1 /\ nSummarize = 1 /\ nValidate = 1

C3_Witness ==
    /\ pc = "returned"
    /\ StartsWithSuspicious(validation_result)
    /\ nSuspCorrect = 1
    /\ nSummarize = 2
    /\ nValidate = 1

\* C4 as stated: when the first execution of a call returned zero rows, exactly
\* one empty-result correction prompt is issued in that call.
C4_ExactlyOneEmptyCorrection ==
    (firstOutcome = "empty" /\ pc # "correct_empty") => nCorrectEmpty = 1

\* C4 as amended: every guarded execution that returns zero rows is followed
\* by one empty-result correction prompt, so a call whose first execution
\* returned zero rows issues between 1 and max_retries of them, as many as
\* guarded executions returned zero rows.
C4_OneEmptyCorrectionPerEmptyResult ==
    /\ pc = "correct_empty" => nCorrectEmpty + 1 = nEmptyGuarded
    /\ pc # "correct_empty" => nCorrectEmpty = nEmptyGuarded
    /\ (firstOutcome = "empty" /\ pc # "correct_empty") =>
          (nCorrectEmpty >= 1 /\ nCorrectEmpty <= max_retries)

C4_Witness ==
    /\ firstOutcome = "empty"
    /\ pc = "final"
    /\ nCorrectEmpty = max_retries

\* C5 as stated: when every execution of a call raised and an exception left
\* the call, that exception is the error of the final unguarded execution of
\* the last corrected query text.
C5_RaisedIsLastStoreError ==
    (pc = "raised" /\ nExec >= 1 /\ allFailed) =>
        /\ raised.src = "store"
        /\ ~lastExec.guarded
        /\ raised.msg = lastExec.err
        /\ lastExec.query = lastCorrected

\* C5 as amended: when all max_retries + 1 executions of a call raised, the
\* exception that leaves is the error of the final unguarded execution of the
\* last corrected query text; when fewer were made and all raised, a gateway
\* call of correct_sql_error failed and its error leaves instead.
C5_RaisedIsLastStoreErrorOrGateway ==
    (pc = "raised" /\ nExec >= 1 /\ allFailed) =>
        IF nExec = max_retries + 1
        THEN /\ raised.src = "store"
             /\ ~lastExec.guarded
             /\ raised.msg = lastExec.err
             /\ lastExec.query = lastCorrected
        ELSE /\ raised.src = "gateway"
             /\ lastExec.guarded

C5_Witness ==
    /\ pc = "raised"
    /\ allFailed
    /\ nExec = max_retries + 1
    /\ raised.src = "store"
    /\ raised.msg = lastExec.err
    /\ raised.msg # error_message

\* C6: the triple process_query returns carries the SQL text of the last
\* store execution of the request and the rows that execution returned.
C6_ReturnsLastExecution ==
    pc = "returned" =>
        /\ lastExec.kind \in {"rows", "empty"}
        /\ final_query = lastExec.query
        /\ results = lastExec.rows

C6_Witness ==
    /\ pc = "returned"
    /\ nSuspCorrect = 1
    /\ nExecTotal >= 3
    /\ final_query = lastExec.query

\* C7: once the first pass produced a summary and the verdict is SUSPICIOUS,
\* no failing store execution of the corrective cycle makes process_query
\* raise instead of returning a triple.
C7_SuspiciousNeverBlocks ==
    (nSuspCorrect = 1 /\ nEqwr = 2) => ~(pc = "raised" /\ raised.src = "store")


(***************************************************************************)
(* Properties of the ingestion                                             *)
(***************************************************************************)
FeedAllowListed == \A i \in 1..Len(feed) : feed[i].name \in VALID_GTFS_FILES

FeedTables == {table_name_of(feed[i].name) : i \in 1..Len(feed)}

\* C8 as stated: after process_gtfs_feed completed on a feed of allow-listed
\* files, the GTFS tables of the store are exactly the tables of the feed's
\* files and each has as many columns as its file's header.
C8_TablesAndHeaderColumns ==
    (ipc = "done" /\ FeedAllowListed) =>
        /\ gtfs_tables = FeedTables
        /\ \A i \in 1..Len(feed) :
             Len(store[table_name_of(feed[i].name)].cols) = Len(feed[i].header)

\* C8 as amended: the GTFS tables of the store are exactly the tables of the
\* feed's files; each table other than stops has the columns of its file's
\* header, and stops has them followed by the one column geometry.
C8_TablesAndHeaderColumnsPlusGeometry ==
    (ipc = "done" /\ FeedAllowListed) =>
        /\ gtfs_tables = FeedTables
        /\ \A i \in 1..Len(feed) :
             LET t == table_name_of(feed[i].name)
             IN IF t = "stops"
                THEN /\ store[t].cols = Append(feed[i].header, "geometry")
                     /\ Len(store[t].cols) = Len(feed[i].header) + 1
                ELSE /\ store[t].cols = feed[i].header
                     /\ Len(store[t].cols) = Len(feed[i].header)

C8_Witness ==
    /\ ipc = "done"
    /\ FeedAllowListed
    /\ Len(feed) >= 2
    /\ <<"stops", "txt">> \in FeedFileNames(feed)
    /\ \E t \in StoreNames : snapshot[t].exists /\ ~store[t].exists

\* C9: a call of process_gtfs_feed with the feed of the call before it ends as
\* that call ended and leaves every table as that call left it: same tables,
\* same columns, same row counts.
C9_ReingestionIdempotent ==
    (ipc \in {"done", "failed"} /\ sameAsPrev) =>
        /\ ipc = prevStatus
        /\ store = snapshot

C9_Witness ==
    /\ ipc = "done"
    /\ sameAsPrev
    /\ Len(feed) >= 2
    /\ store = snapshot
    /\ \E t \in StoreNames : store[t].exists /\ store[t].rows >= 2

\* C10: a file whose parsing or loading fails ends the call: the call never
\* goes on past such a file, no later file is handed to process_gtfs_file,
\* add_spatial_index_to_stops is not called, and the tables of the files
\* before it hold all their rows.
C10_FailureAborts ==
    /\ ipc \in {"file", "copy", "spatial", "done"} =>
         \A j \in 1..(idx - 1) :
             Selected(feed[j].name) => feed[j].defect = "none"
    /\ (ipc = "failed" /\ ierr \in {"parse", "load"}) =>
         /\ feed[idx].defect = ierr
         /\ touched = {feed[j].name : j \in {k \in 1..idx : Selected(feed[k].name)}}
         /\ ~augmented
         /\ \A j \in 1..(idx - 1) :
                Selected(feed[j].name) =>
                    LET tbl == store[table_name_of(feed[j].name)]
                    IN /\ tbl.exists
                       /\ tbl.cols = feed[j].header
                       /\ tbl.rows = feed[j].nrows

C10_Witness ==
    /\ ipc = "failed"
    /\ ierr = "load"
    /\ idx = 2
    /\ Len(feed) = 3
    /\ FeedAllowListed
    /\ feed[1].name = <<"stops", "txt">>
    /\ store["stops"].rows = 2
    /\ ~store[table_name_of(feed[3].name)].exists


\* C11: every table name that a CREATE TABLE, DROP TABLE, bulk-load or ALTER
\* statement of the ingestion names is the stem of an allow-listed file name;
\* an entry whose name is not in the allow-list is neither handed to
\* process_gtfs_file nor a cause of an error, and no table is made for it.
C11_OnlyAllowListedTableNames ==
    /\ sqlNames \subseteq {table_name_of(n) : n \in VALID_GTFS_FILES}
    /\ touched \subseteq VALID_GTFS_FILES
    /\ ierr # "ValueError"
    /\ \A t \in StoreNames :
         store[t].exists => t \in {table_name_of(n) : n \in VALID_GTFS_FILES}
    /\ ipc \in {"file", "copy", "spatial", "done"} =>
         \A j \in 1..(idx - 1) :
             ~Selected(feed[j].name) => ~store[table_name_of(feed[j].name)].exists

C11_Witness ==
    /\ ipc = "done"
    /\ Len(feed) = 3
    /\ feed[2].name = <<"fare_rules", "txt">>
    /\ store[table_name_of(feed[1].name)].exists
    /\ store[table_name_of(feed[3].name)].exists
    /\ ~store["fare_rules"].exists
    /\ table_name_of(feed[3].name) \in sqlNames

\* C12: an upload whose archive has no allow-listed entry is rejected, and
\* the step that handles it leaves the ingestion where it was: no call of
\* process_gtfs_feed is entered and no table is dropped, created or changed.
C12_EmptyUploadRejected ==
    [][(ipc \in {"idle", "done", "failed"} /\ zip_contents' = << >>) =>
          /\ upc' = "rejected"
          /\ UNCHANGED <<store, ipc, feed, idx, ierr, touched, augmented,
                         snapshot, prevStatus, sameAsPrev, sqlNames>>]_vars

C12_Witness ==
    /\ upc = "rejected"
    /\ zip_contents = << >>
    /\ ipc = "done"
    /\ \E t \in StoreNames : store[t].exists /\ store[t].rows > 0

(***************************************************************************)
(* The answer of the chat endpoint                                         *)
(***************************************************************************)
\* engine.py:280-295 (routes.py:65-79 is the same): what the caller of the
\* endpoint receives.  The handler has no try, so an exception of
\* process_query leaves it unhandled and the framework answers 500 with
\* its own page.
chat_response ==
    IF pc = "returned"
    THEN [status |-> 200, keys |-> {"summary", "table", "query"}]
    ELSE IF pc = "raised"
    THEN [status |-> 500, keys |-> {}]
    ELSE [status |-> 0, keys |-> {}]

\* C13: when the last execution of an exhausted retry loop raised, the
\* answer of the chat endpoint carries the original and the last corrected
\* query text.
C13_FailureCarriesSql ==
    (pc = "raised" /\ raised.src = "store" /\ nExec = max_retries + 1) =>
        {"original_query", "adjusted_query"} \subseteq chat_response.keys

\* C16: correct_sql_error is called only after a store execution raised,
\* with the query that was just executed and the message of that execution.
\* pc = "correct_error" is the state at line 217, where the call is made
\* with the locals query and error_message.
C16_ErrorCorrectionMatchesExecution ==
    pc = "correct_error" =>
        /\ lastExec.kind = "error"
        /\ lastExec.query = query
        /\ lastExec.err = error_message

\* C17: a run of process_query makes at most 2 * (max_retries + 1) store
\* executions, at most 2 summarizations and at most 1 validation, and a run
\* that started ends: it returns or raises.
C17_BoundedAndTerminates ==
    /\ [](/\ nExecTotal <= 2 * (max_retries + 1)
          /\ nSummarize <= 2
          /\ nValidate <= 1
          /\ nEqwr <= 2)
    /\ (pc = "generate") ~> (pc \in {"returned", "raised"})

C17_Witness ==
    /\ pc = "returned"
    /\ nExecTotal = 2 * (max_retries + 1)
    /\ nSummarize = 2
    /\ nValidate = 1

\* C18: when execute_query_with_retries has returned, empty rows come only
\* from its final unguarded execution, the (max_retries + 1)th of the call;
\* a call that returned after fewer executions returned rows.
C18_EmptyOnlyFromFinalExecution ==
    pc = "summarize" =>
        /\ ~Truthy(results) => (nExec = max_retries + 1 /\ ~lastExec.guarded)
        /\ nExec < max_retries + 1 => Truthy(results)
        /\ results = lastExec.rows

C18_Witness ==
    /\ pc = "summarize"
    /\ results = << >>
    /\ nExec = max_retries + 1
    /\ nEmptyGuarded > 0

\* the schema text names only tables and columns the store has now
SchemaIsLive(sch) ==
    \A t \in DOMAIN sch :
        /\ store[t].exists
        /\ \A i \in 1..Len(sch[t]) : HasColumn(store[t], sch[t][i])

\* C14: at every point where a prompt that embeds the schema text is sent
\* (generation at line 255, the corrections at lines 212, 217 and 263), the
\* text names only tables and columns that exist in the store at that moment.
C14_PromptSchemaIsLive ==
    pc \in {"generate", "correct_empty", "correct_error", "suspicious"} =>
        SchemaIsLive(schema)

\* C15: nothing keeps a query from running while process_gtfs_feed runs, and
\* the query sees the store as the ingestion has left it so far: a table
\* that was dropped and not yet recreated is missing for it, a table
\* recreated and not yet loaded is empty.
C15_ReaderNotIsolated ==
    /\ [](ipc \in {"cleanup", "file", "copy", "spatial"} =>
            ENABLED (execute_query /\ UNCHANGED <<engineVars, ingestVars, connVars, llmVars>>))
    /\ [][obs' # obs => obs'.seen = Observe(store[obs'.table])]_vars

C15_Witness ==
    /\ ipc \in {"file", "copy"}
    /\ obs.table \in {"stops", "routes"}
    /\ obs.seen = "missing"
    /\ ~store[obs.table].exists
    /\ snapshot[obs.table].exists
    /\ snapshot[obs.table].rows > 0

\* C19: with one request at a time, get_db_connection makes at most
\* db_max_retries = 3 attempts; what it returns is the global conn, open, and
\* established or probed by the attempt that returns; after a caught failure
\* of a non-final attempt the global conn is None, so the next attempt
\* connects; a caught exception leaves the function only from the third
\* attempt and is that attempt's exception.
C19_GetConnection ==
    /\ [](\A t \in {1} :
            /\ tAttempts[t] <= db_max_retries
            /\ (tpc[t] = "attempt" /\ tattempt[t] > 0) => conn = 0
            /\ (tpc[t] = "raised" /\ terr[t] \in RetryErrors) =>
                   (tAttempts[t] = db_max_retries /\ terr[t] = tLastErr[t]))
    /\ [][\A t \in {1} :
            (tpc[t] = "attempt" /\ tpc'[t] = "use") =>
                /\ held'[t] # 0
                /\ held'[t] = conn'
                /\ held'[t] \notin closedObjs'
                /\ held'[t] \notin brokenObjs'
                /\ tHow'[t] \in {"connected", "probed"}
                /\ tHow'[t] = "probed" => held'[t] = conn]_vars

C19_Witness ==
    /\ tpc[1] = "use"
    /\ tAttempts[1] = db_max_retries
    /\ tHow[1] = "connected"
    /\ closedObjs # {}
    /\ held[1] \notin closedObjs

\* C20: a connection that get_db_connection returned to a request is open
\* as long as the request has not executed its statement.
C20_HeldConnectionStaysOpen ==
    \A t \in Threads : tpc[t] = "use" => held[t] \notin closedObjs

\* the pair is registered in LLM_CLIENTS
Registered(p) == p[1] \in DOMAIN LLM_CLIENTS /\ p[2] \in SeqRange(LLM_CLIENTS[p[1]])

\* C21: a provider is contacted only with a registered pair and every other
\* pair ends in ValueError; a request that leaves the pair to the defaults of
\* chat or process_query does not end in ValueError: it reaches the provider
\* with its generation prompt.
C21_DefaultsAreRegistered ==
    /\ lpc = "contacted" => Registered(contacted)
    /\ lpc = "raised" =>
         (lerr = "ValueError" /\ nCalls = 0 /\ ~ResolveModel(company, model).ok)
    /\ (omitted /\ entry \in {"chat", "process_query"}) => lpc # "raised"

====
